---- MODULE Spec2Model ----
(***************************************************************************)
(* The native shell of quiver (src-tauri/src/lib.rs): start-up in run(),   *)
(* the write-once CLI_ARGS holder and the five command handlers.           *)
(*                                                                         *)
(* Strings are sequences of one-character strings, so that starts_with,    *)
(* path resolution and partial writes are computed, not assumed.           *)
(* Option<T> is a sequence of length at most one: None is << >> and        *)
(* Some(v) is << v >>, so Some("") and None differ.                        *)
(***************************************************************************)
EXTENDS Integers, Sequences, FiniteSets, TLC

VARIABLES
    pc,             \* position of the process: see Lifetime
    args,           \* Option<Args>: the value of Args::parse() in run()
    macro_content,  \* the local of run() computed at lines 95-127
    CLI_ARGS,       \* Option<ProcessedArgs>: the OnceLock of line 6
    fs,             \* the filesystem: absolute path -> file
    fsLog,          \* the filesystem operations performed so far, in order
    stdout,         \* lines written to the standard output stream
    stderr,         \* lines written to the error stream
    exitCode,       \* Option<int>: the code handed to exit, once one was
    resp,           \* the last command invocation and what it returned
    returned,       \* what get_cli_args returned so far, with setCount then
    calls,          \* number of command invocations served
    setCount        \* number of successful CLI_ARGS.set calls

vars == << pc, args, macro_content, CLI_ARGS, fs, fsLog, stdout, stderr,
           exitCode, resp, returned, calls, setCount >>

----------------------------------------------------------------------------
(* Bounds *)

\* Command invocations served in one run.
MaxCalls == 3

----------------------------------------------------------------------------
(* Options, strings, lines, results *)

None == << >>

Some(v) == << v >>

IsSome(o) == Len(o) = 1

Unwrap(o) == o[1]

\* "http://" and "https://", character by character.
HttpPrefix == << "h", "t", "t", "p", ":", "/", "/" >>

HttpsPrefix == << "h", "t", "t", "p", "s", ":", "/", "/" >>

\* str::starts_with
starts_with(s, prefix) ==
    /\ Len(s) >= Len(prefix)
    /\ SubSeq(s, 1, Len(prefix)) = prefix

\* One line on an output stream, or one error message: which format string
\* produced it, the value interpolated into it, and the OS error, if any.
Line(tag, text, e) == [tag |-> tag, text |-> text, err |-> e]

Ok == << "Ok" >>

Err(msg) == << "Err", msg >>

\* The exit status of a Rust process that panicked.
PanicExitCode == 101

\* The exit status clap uses for a usage error.
UsageExitCode == 2

----------------------------------------------------------------------------
(* The filesystem *)

\* The working directory of the process.
Cwd == << "/" >>

P_m == << "/", "m" >>

P_u == << "/", "u" >>

P_o == << "/", "o" >>

P_r == << "/", "r" >>

\* One filesystem operation with its outcome: the error kind, "" on success.
FsOp(op, path, e) == [op |-> op, path |-> path, err |-> e]

File(exists, content, readable, writable) ==
    [exists |-> exists, content |-> content,
     readable |-> readable, writable |-> writable]

\* /m is a readable macro file, /u exists but cannot be read, /r cannot be
\* written, /o is the usual output file, present with old content or not yet
\* there.  Every other path does not exist.
FsWorlds ==
    { [p \in {P_m, P_u, P_o, P_r} |->
         CASE p = P_m -> File(TRUE, << "x", "\n", "y" >>, TRUE, TRUE)
           [] p = P_u -> File(TRUE, << >>, FALSE, FALSE)
           [] p = P_r -> File(TRUE, << "z" >>, TRUE, FALSE)
           [] p = P_o -> o] :
      o \in { File(FALSE, << >>, TRUE, TRUE),
              File(TRUE, << "z", "z", "z" >>, TRUE, TRUE) } }

\* How the operating system resolves a path: relative to the working directory
\* unless it is absolute.
Resolve(p) == IF p # << >> /\ p[1] = "/" THEN p ELSE Cwd \o p

FileExists(f, q) == q \in DOMAIN f /\ f[q].exists

\* Path::canonicalize: the absolute path, or an error when nothing is there.
canonicalize(f, p) ==
    IF FileExists(f, Resolve(p)) THEN Some(Resolve(p)) ELSE None

\* A read that stops at the end of the first line.
read_to_string_FirstLine(f, q) ==
    IF FileExists(f, q) /\ f[q].readable
    THEN LET c == f[q].content
             n == IF \E i \in 1 .. Len(c) : c[i] = "\n"
                  THEN CHOOSE i \in 1 .. Len(c) :
                         c[i] = "\n" /\ \A j \in 1 .. i - 1 : c[j] # "\n"
                  ELSE Len(c) + 1
         IN Some(SubSeq(c, 1, n - 1))
    ELSE None

\* std::fs::read_to_string: the full content, or an error.
read_to_string(f, q) ==
    IF FileExists(f, q) /\ f[q].readable THEN Some(f[q].content) ELSE None

\* A write that appends to what the file held instead of replacing it.
Written_Append(f, q, text) ==
    [f EXCEPT ![q] = IF f[q].exists
                     THEN [@ EXCEPT !.content = @ \o text]
                     ELSE File(TRUE, text, TRUE, TRUE)]

\* The file left behind by creating or truncating q and writing text into it.
Written(f, q, text) ==
    [f EXCEPT ![q] = IF f[q].exists
                     THEN [@ EXCEPT !.content = text]
                     ELSE File(TRUE, text, TRUE, TRUE)]

\* std::fs::write(path, code): the possible outcomes, each an error kind ("" on
\* success) with the filesystem it leaves.  A path that cannot be written fails
\* and leaves everything alone.  Otherwise the write succeeds and the file holds
\* exactly code, or creating the file fails (nothing changes), or the file is
\* created or truncated and the write stops part-way (a proper prefix of code).
fs_write(f, p, code) ==
    LET q == Resolve(p) IN
    IF q \notin DOMAIN f \/ ~f[q].writable
    THEN { << "denied", f >> }
    ELSE { << "", Written(f, q, code) >> }
         \cup { << "io", f >> }
         \cup { << "io", Written(f, q, SubSeq(code, 1, k)) >> :
                k \in 0 .. Len(code) - 1 }

----------------------------------------------------------------------------
(* Inputs *)

OutputFiles == { None, Some(<< "o" >>), Some(P_r), Some(P_m) }

\* No macros, two URLs, a near miss of the URL prefix (a missing file), a
\* relative path to a readable file, an unreadable file, a missing file.
MacroSources ==
    { None,
      Some(HttpPrefix \o << "m" >>),
      Some(HttpsPrefix \o << "m" >>),
      Some(<< "h", "t", "t", "p", ":", "/", "m" >>),
      Some(<< "m" >>),
      Some(P_u),
      Some(<< "/", "n" >>) }

\* The positional data argument.
StartupData == { None, Some(<< "d" >>) }

\* The data argument of close_app: absent, empty, or a two-character string.
CloseData == { None, Some(<< >>), Some(<< "a", "b" >>) }

Messages == { << "h", "i" >> }

\* struct Args
Args == [output_file : OutputFiles, macros : MacroSources, data : StartupData]

\* struct ProcessedArgs
ProcessedArgs(output_file, content, data) ==
    [output_file |-> output_file, macro_content |-> content, data |-> data]

----------------------------------------------------------------------------
(* The process lifetime *)

\* Starting: before Args::parse().  Initializing: the macro load, the write of
\* CLI_ARGS and the construction of the application.  Ready: the command
\* handlers are active.  Exiting: the application was asked to exit.
Lifetime(p) ==
    CASE p = "parse" -> "Starting"
      [] p \in {"macros", "set", "build"} -> "Initializing"
      [] p = "ready" -> "Ready"
      [] p = "exiting" -> "Exiting"
      [] p = "terminated" -> "terminated"

NoResp == [cmd |-> "none", arg |-> None, result |-> None]

Init ==
    /\ pc = "parse"
    /\ args = None
    /\ macro_content = None
    /\ CLI_ARGS = None
    /\ fs \in FsWorlds
    /\ fsLog = << >>
    /\ stdout = << >>
    /\ stderr = << >>
    /\ exitCode = None
    /\ resp = NoResp
    /\ returned = {}
    /\ calls = 0
    /\ setCount = 0

\* std::process::exit(code), and the exit of a panicking process.
ProcessExit(code) ==
    /\ pc' = "terminated"
    /\ exitCode' = Some(code)

----------------------------------------------------------------------------
(* run(): start-up *)

\* Args::parse(): the parsed arguments; or, on a malformed command line, a usage
\* message on the error stream and a non-zero exit; or, for --help, the help
\* text on the standard output and exit code 0.
ParseArgs ==
    /\ pc = "parse"
    /\ \/ /\ \E a \in Args : args' = Some(a)
          /\ pc' = "macros"
          /\ UNCHANGED << stdout, stderr, exitCode >>
       \/ /\ stderr' = Append(stderr, Line("usage", << >>, ""))
          /\ ProcessExit(UsageExitCode)
          /\ UNCHANGED << args, stdout >>
       \/ /\ stdout' = Append(stdout, Line("help", << >>, ""))
          /\ ProcessExit(0)
          /\ UNCHANGED << args, stderr >>
    /\ UNCHANGED << macro_content, CLI_ARGS, fs, fsLog, resp, returned, calls, setCount >>

\* The macro loader (lines 95-127) as a function of the macro source and the
\* filesystem: whether run() goes on, the content, the lines printed and the
\* filesystem operations performed.
MacroLoad(macros, f) ==
    IF ~IsSome(macros)
    THEN [exit |-> FALSE, content |-> None, out |-> << >>, err |-> << >>,
          ops |-> << >>]
    ELSE
    LET macro_path == Unwrap(macros)
        absolute_path == canonicalize(f, macro_path)
        content == read_to_string(f, Unwrap(absolute_path))
    IN
    IF starts_with(macro_path, HttpPrefix) \/ starts_with(macro_path, HttpsPrefix)
    THEN [exit |-> FALSE, content |-> Some(macro_path), out |-> << >>,
          err |-> << >>, ops |-> << >>]
    ELSE IF ~IsSome(absolute_path)
    THEN [exit |-> TRUE, content |-> None, out |-> << >>,
          err |-> << Line("macro_not_found", macro_path, "not found") >>,
          ops |-> << FsOp("canonicalize", macro_path, "not found") >>]
    ELSE IF ~IsSome(content)
    THEN [exit |-> TRUE, content |-> None, out |-> << >>,
          err |-> << Line("macro_read_failed", Unwrap(absolute_path), "read") >>,
          ops |-> << FsOp("canonicalize", macro_path, ""),
                     FsOp("read", Unwrap(absolute_path), "read") >>]
    ELSE [exit |-> FALSE, content |-> Some(Unwrap(content)),
          out |-> << Line("macro_loaded", Unwrap(absolute_path), "") >>,
          err |-> << >>,
          ops |-> << FsOp("canonicalize", macro_path, ""),
                     FsOp("read", Unwrap(absolute_path), "") >>]

\* A loader whose failure path exits with code 0.
LoadMacros_ExitZero ==
    /\ pc = "macros"
    /\ LET r == MacroLoad(Unwrap(args).macros, fs) IN
        /\ stdout' = stdout \o r.out
        /\ stderr' = stderr \o r.err
        /\ fsLog' = fsLog \o r.ops
        /\ IF r.exit
           THEN /\ ProcessExit(0)
                /\ UNCHANGED macro_content
           ELSE /\ pc' = "set"
                /\ macro_content' = r.content
                /\ UNCHANGED exitCode
    /\ UNCHANGED << args, CLI_ARGS, fs, resp, returned, calls, setCount >>

\* A loader that reports the failure and goes on without macros.
LoadMacros_Continue ==
    /\ pc = "macros"
    /\ LET r == MacroLoad(Unwrap(args).macros, fs) IN
        /\ stdout' = stdout \o r.out
        /\ stderr' = stderr \o r.err
        /\ fsLog' = fsLog \o r.ops
        /\ pc' = "set"
        /\ macro_content' = r.content
        /\ UNCHANGED exitCode
    /\ UNCHANGED << args, CLI_ARGS, fs, resp, returned, calls, setCount >>

\* Lines 95-127 of run().
LoadMacros ==
    /\ pc = "macros"
    /\ LET r == MacroLoad(Unwrap(args).macros, fs) IN
        /\ stdout' = stdout \o r.out
        /\ stderr' = stderr \o r.err
        /\ fsLog' = fsLog \o r.ops
        /\ IF r.exit
           THEN /\ ProcessExit(1)
                /\ UNCHANGED macro_content
           ELSE /\ pc' = "set"
                /\ macro_content' = r.content
                /\ UNCHANGED exitCode
    /\ UNCHANGED << args, CLI_ARGS, fs, resp, returned, calls, setCount >>

\* A start-up that builds the application without storing the arguments.
SetCliArgs_Skipped ==
    /\ pc = "set"
    /\ pc' = "build"
    /\ UNCHANGED << args, macro_content, CLI_ARGS, fs, fsLog, stdout, stderr,
                    exitCode, resp, returned, calls, setCount >>

\* Lines 129-135 of run(): OnceLock::set fails when the lock is already set,
\* and the unwrap then panics.
SetCliArgs ==
    /\ pc = "set"
    /\ LET processed_args == ProcessedArgs(Unwrap(args).output_file,
                                           macro_content,
                                           Unwrap(args).data) IN
        IF CLI_ARGS = None
        THEN /\ CLI_ARGS' = Some(processed_args)
             /\ setCount' = setCount + 1
             /\ pc' = "build"
             /\ UNCHANGED exitCode
        ELSE /\ ProcessExit(PanicExitCode)
             /\ UNCHANGED << CLI_ARGS, setCount >>
    /\ UNCHANGED << args, macro_content, fs, fsLog, stdout, stderr, resp, returned, calls >>

\* Lines 137-147 of run(): the application is built and its event loop starts
\* serving commands, or building it fails and the expect panics.
BuildApp ==
    /\ pc = "build"
    /\ \/ /\ pc' = "ready"
          /\ UNCHANGED exitCode
       \/ ProcessExit(PanicExitCode)
    /\ UNCHANGED << args, macro_content, CLI_ARGS, fs, fsLog, stdout, stderr,
                    resp, returned, calls, setCount >>

----------------------------------------------------------------------------
(* The command handlers *)

\* The process is running and the bound on served invocations is not reached.
Serving ==
    /\ pc \notin {"exiting", "terminated"}
    /\ calls < MaxCalls

\* AppHandle::exit(code): the application is asked to exit with the code; the
\* handler returns and the process ends when the event loop acts on the request.
AppExit(code) ==
    /\ pc' = "exiting"
    /\ exitCode' = Some(code)

Respond(cmd, arg, result) ==
    /\ resp' = [cmd |-> cmd, arg |-> arg, result |-> result]
    /\ calls' = calls + 1

\* The value of lines 42-46.
DefaultArgs == ProcessedArgs(None, None, None)

\* A handler that returns the default whatever CLI_ARGS holds.
get_cli_args_Default ==
    /\ Serving
    /\ Respond("get_cli_args", None, DefaultArgs)
    /\ returned' = returned \cup { << setCount, DefaultArgs >> }
    /\ UNCHANGED << pc, args, macro_content, CLI_ARGS, fs, fsLog, stdout,
                    stderr, exitCode, setCount >>

\* Lines 38-48.
get_cli_args ==
    /\ Serving
    /\ LET value == IF IsSome(CLI_ARGS) THEN Unwrap(CLI_ARGS) ELSE DefaultArgs IN
        /\ Respond("get_cli_args", None, value)
        /\ returned' = returned \cup { << setCount, value >> }
    /\ UNCHANGED << pc, args, macro_content, CLI_ARGS, fs, fsLog, stdout,
                    stderr, exitCode, setCount >>

\* Lines 50-53.
console_log(message) ==
    /\ Serving
    /\ stdout' = Append(stdout, Line("[FRONTEND]", message, ""))
    /\ Respond("console_log", Some(message), None)
    /\ UNCHANGED << pc, args, macro_content, CLI_ARGS, fs, fsLog, stderr,
                    exitCode, returned, setCount >>

\* Lines 55-58.
console_error(message) ==
    /\ Serving
    /\ stderr' = Append(stderr, Line("[FRONTEND ERROR]", message, ""))
    /\ Respond("console_error", Some(message), None)
    /\ UNCHANGED << pc, args, macro_content, CLI_ARGS, fs, fsLog, stdout,
                    exitCode, returned, setCount >>

\* The message of line 63.
NotInitialized == Line("CLI args not initialized", << >>, "")

\* An empty CLI_ARGS taken for a configuration without output file.
ReturnNotInitialized_Exits(data) ==
    /\ AppExit(0)
    /\ Respond("close_app", data, Ok)
    /\ UNCHANGED << fs, fsLog, stdout, stderr >>

\* Line 63 when CLI_ARGS is empty: the ? returns the error.
ReturnNotInitialized(data) ==
    /\ Respond("close_app", data, Err(NotInitialized))
    /\ UNCHANGED << pc, fs, fsLog, stdout, stderr, exitCode >>

\* Lines 80-81.
ExitOk(data) ==
    /\ AppExit(0)
    /\ Respond("close_app", data, Ok)

\* Lines 67-69, then 80-81: the write succeeded and left the filesystem as after.
WriteOk(data, output_file, after) ==
    /\ fs' = after
    /\ fsLog' = Append(fsLog, FsOp("write", output_file, ""))
    /\ stdout' = Append(stdout, Line("Successfully wrote output to", output_file, ""))
    /\ ExitOk(data)
    /\ UNCHANGED stderr

\* The error of line 71.
error_msg(output_file, e) == Line("Failed to write to", output_file, e)

\* The three lines of 72-74.
FailureReport(output_file, code, e) ==
    << error_msg(output_file, e),
       Line("Content that failed to write:", << >>, ""),
       Line("", code, "") >>

\* A failure that is reported and then goes on to exit as a success does.
WriteErr_Exits(data, output_file, e, after) ==
    /\ fs' = after
    /\ fsLog' = Append(fsLog, FsOp("write", output_file, e))
    /\ stderr' = stderr \o FailureReport(output_file, Unwrap(data), e)
    /\ ExitOk(data)
    /\ UNCHANGED stdout

\* Lines 70-76: the write failed with e and left the filesystem as after.
WriteErr(data, output_file, e, after) ==
    /\ fs' = after
    /\ fsLog' = Append(fsLog, FsOp("write", output_file, e))
    /\ stderr' = stderr \o FailureReport(output_file, Unwrap(data), e)
    /\ Respond("close_app", data, Err(error_msg(output_file, e)))
    /\ UNCHANGED << pc, stdout, exitCode >>

\* Lines 65-78.
WriteOutput(data, output_file, code) ==
    \E o \in fs_write(fs, output_file, code) :
        IF o[1] = ""
        THEN WriteOk(data, output_file, o[2])
        ELSE WriteErr(data, output_file, o[1], o[2])

\* A handler that writes an empty file when no data was passed.
close_app_EmptyWhenAbsent(data) ==
    /\ Serving
    /\ IF ~IsSome(CLI_ARGS)
       THEN ReturnNotInitialized(data)
       ELSE LET output_file == Unwrap(CLI_ARGS).output_file IN
            IF IsSome(output_file)
            THEN WriteOutput(data, Unwrap(output_file),
                             IF IsSome(data) THEN Unwrap(data) ELSE << >>)
            ELSE /\ ExitOk(data)
                 /\ UNCHANGED << fs, fsLog, stdout, stderr >>
    /\ UNCHANGED << args, macro_content, CLI_ARGS, returned, setCount >>

\* Lines 60-82.
close_app(data) ==
    /\ Serving
    /\ IF ~IsSome(CLI_ARGS)
       THEN ReturnNotInitialized(data)
       ELSE LET output_file == Unwrap(CLI_ARGS).output_file IN
            IF IsSome(output_file) /\ IsSome(data)
            THEN WriteOutput(data, Unwrap(output_file), Unwrap(data))
            ELSE /\ ExitOk(data)
                 /\ UNCHANGED << fs, fsLog, stdout, stderr >>
    /\ UNCHANGED << args, macro_content, CLI_ARGS, returned, setCount >>

\* A handler that, like close_app, refuses to act on an empty CLI_ARGS.
close_app_no_output_Checked ==
    /\ Serving
    /\ IF ~IsSome(CLI_ARGS)
       THEN /\ Respond("close_app_no_output", None, Err(NotInitialized))
            /\ UNCHANGED << pc, exitCode >>
       ELSE /\ AppExit(0)
            /\ Respond("close_app_no_output", None, Ok)
    /\ UNCHANGED << args, macro_content, CLI_ARGS, fs, fsLog, stdout, stderr,
                    returned, setCount >>

\* Lines 84-88.
close_app_no_output ==
    /\ Serving
    /\ AppExit(0)
    /\ Respond("close_app_no_output", None, Ok)
    /\ UNCHANGED << args, macro_content, CLI_ARGS, fs, fsLog, stdout, stderr,
                    returned, setCount >>

\* The event loop acts on the exit request: the process ends with the code.
ExitProcess ==
    /\ pc = "exiting"
    /\ pc' = "terminated"
    /\ UNCHANGED << args, macro_content, CLI_ARGS, fs, fsLog, stdout, stderr,
                    exitCode, resp, returned, calls, setCount >>

\* Lines 139-146: the five handlers are registered with the application and
\* served by its event loop, so each is invoked only once run() is that far.
InvokeGetCliArgs == pc = "ready" /\ get_cli_args

InvokeConsoleLog == pc = "ready" /\ \E message \in Messages : console_log(message)

InvokeConsoleError == pc = "ready" /\ \E message \in Messages : console_error(message)

InvokeCloseApp == pc = "ready" /\ \E data \in CloseData : close_app(data)

InvokeCloseAppNoOutput == pc = "ready" /\ close_app_no_output

Next ==
    \/ ParseArgs
    \/ LoadMacros
    \/ SetCliArgs
    \/ BuildApp
    \/ InvokeGetCliArgs
    \/ InvokeConsoleLog
    \/ InvokeConsoleError
    \/ InvokeCloseApp
    \/ InvokeCloseAppNoOutput
    \/ ExitProcess

Spec == Init /\ [][Next]_vars

\* The handlers as functions of the crate, called whatever point run() has
\* reached: what their own code does while CLI_ARGS is still empty.
NextUnsequenced ==
    \/ ParseArgs
    \/ LoadMacros
    \/ SetCliArgs
    \/ BuildApp
    \/ get_cli_args
    \/ \E message \in Messages : console_log(message)
    \/ \E message \in Messages : console_error(message)
    \/ \E data \in CloseData : close_app(data)
    \/ close_app_no_output
    \/ ExitProcess

SpecUnsequenced == Init /\ [][NextUnsequenced]_vars

\* The event loop that line 146 runs acts on an exit request it was handed.
FairSpec == Spec /\ WF_vars(ExitProcess)

FairSpecUnsequenced == SpecUnsequenced /\ WF_vars(ExitProcess)

----------------------------------------------------------------------------
(* Vocabulary of the properties *)

\* The step served close_app.
CloseAppServed == calls' = calls + 1 /\ resp'.cmd = "close_app"

\* The step performed one write, with error kind e ("" for a success).
StepWrote(e) ==
    /\ Len(fsLog') = Len(fsLog) + 1
    /\ fsLog'[Len(fsLog')].op = "write"
    /\ fsLog'[Len(fsLog')].err = e

\* The step performed one write that failed.
StepWriteFailed ==
    /\ Len(fsLog') = Len(fsLog) + 1
    /\ fsLog'[Len(fsLog')].op = "write"
    /\ fsLog'[Len(fsLog')].err # ""

\* The step asked the application to exit with code 0 and returned success.
ReturnsOkAndExits ==
    /\ resp'.result = << "Ok" >>
    /\ pc' = "exiting"
    /\ exitCode' = << 0 >>

\* An exit request with code 0 is followed by nothing but the end of the
\* process, with that code.
ExitingEndsWithZero ==
    pc = "exiting" => pc' = "terminated" /\ exitCode = << 0 >> /\ exitCode' = << 0 >>

\* s is "http://" or "https://" followed by anything.
IsUrl(s) ==
    \/ /\ Len(s) >= 7
       /\ << s[1], s[2], s[3], s[4], s[5], s[6], s[7] >>
            = << "h", "t", "t", "p", ":", "/", "/" >>
    \/ /\ Len(s) >= 8
       /\ << s[1], s[2], s[3], s[4], s[5], s[6], s[7], s[8] >>
            = << "h", "t", "t", "p", "s", ":", "/", "/" >>

\* The macro source of a is a local path that cannot be resolved or read in f.
MacroSourceFails(a, f) ==
    /\ a.macros # << >>
    /\ ~IsUrl(a.macros[1])
    /\ LET q == Resolve(a.macros[1]) IN
         \/ q \notin DOMAIN f
         \/ ~f[q].exists
         \/ ~f[q].readable

----------------------------------------------------------------------------
(* C1 *)

\* C1: when CLI_ARGS holds an output file path p and close_app is called with
\* data d and the write succeeds, then after the call the file at p holds
\* exactly d and no other file changed, close_app returned Ok and asked for exit
\* code 0, and the process then terminates with exit code 0.
C1_WriteVerbatimThenExit ==
    /\ [][ /\ ( /\ CloseAppServed
                /\ CLI_ARGS # << >>
                /\ CLI_ARGS[1].output_file # << >>
                /\ resp'.arg # << >>
                /\ StepWrote("") )
              => LET q == Resolve(CLI_ARGS[1].output_file[1]) IN
                 /\ fs'[q].exists
                 /\ fs'[q].content = resp'.arg[1]
                 /\ \A other \in DOMAIN fs \ {q} : fs'[other] = fs[other]
                 /\ ReturnsOkAndExits
           /\ ExitingEndsWithZero ]_vars
    /\ (pc = "exiting" ~> pc = "terminated")

C1_Witness ==
    /\ pc = "terminated"
    /\ exitCode = << 0 >>
    /\ resp = [cmd |-> "close_app", arg |-> << << "a", "b" >> >>, result |-> << "Ok" >>]
    /\ CLI_ARGS # << >>
    /\ CLI_ARGS[1].output_file = << << "o" >> >>
    /\ fs[P_o].exists
    /\ fs[P_o].content = << "a", "b" >>

----------------------------------------------------------------------------
(* C2 *)

\* C2: when the write of close_app fails, close_app returns the error, the
\* error stream gains the error, a heading and the full intended content, and
\* the process is not asked to exit: it is still serving, with CLI_ARGS as
\* before, so that close_app and close_app_no_output can be served again.
C2_WriteFailureIsReturned ==
    /\ [][ (CloseAppServed /\ StepWriteFailed)
           => /\ resp'.result[1] = "Err"
              /\ resp'.result[2] = [tag |-> "Failed to write to",
                                    text |-> CLI_ARGS[1].output_file[1],
                                    err |-> fsLog'[Len(fsLog')].err]
              /\ Len(stderr') = Len(stderr) + 3
              /\ SubSeq(stderr', 1, Len(stderr)) = stderr
              /\ stderr'[Len(stderr) + 1] = resp'.result[2]
              /\ stderr'[Len(stderr) + 3].text = resp'.arg[1]
              /\ stdout' = stdout
              /\ pc' = "ready"
              /\ exitCode' = << >>
              /\ CLI_ARGS' = CLI_ARGS ]_vars
    /\ []( ( /\ resp.cmd = "close_app"
             /\ resp.result[1] = "Err"
             /\ calls < MaxCalls )
           => (ENABLED InvokeCloseApp) /\ (ENABLED InvokeCloseAppNoOutput) )

\* A write failed, and a later close_app was served and wrote the file.
C2_Witness ==
    /\ pc = "exiting"
    /\ calls >= 2
    /\ resp.cmd = "close_app"
    /\ resp.result = << "Ok" >>
    /\ Len(stderr) >= 3
    /\ stderr[1].tag = "Failed to write to"
    /\ stderr[1].err = "io"
    /\ stderr[3].text = << "a", "b" >>
    /\ Len(fsLog) >= 2
    /\ fsLog[Len(fsLog)].err = ""

----------------------------------------------------------------------------
(* C3 *)

\* C3: close_app served while CLI_ARGS is empty, with any data argument,
\* returns an error, performs no filesystem operation, leaves every file as it
\* was and does not ask the process to exit.
C3_UninitializedCloseAppFails ==
    [][ (CloseAppServed /\ CLI_ARGS = << >>)
        => /\ resp'.result[1] = "Err"
           /\ resp'.result[2].tag = "CLI args not initialized"
           /\ fs' = fs
           /\ fsLog' = fsLog
           /\ pc' = pc
           /\ pc' \notin {"exiting", "terminated"}
           /\ exitCode' = << >> ]_vars

\* close_app was called with data before CLI_ARGS was set, in a run whose
\* arguments name an output file.
C3_Witness ==
    /\ pc = "set"
    /\ CLI_ARGS = << >>
    /\ args # << >>
    /\ args[1].output_file = << << "o" >> >>
    /\ resp.cmd = "close_app"
    /\ resp.arg = << << "a", "b" >> >>
    /\ resp.result[1] = "Err"
    /\ fsLog = << >>

----------------------------------------------------------------------------
(* C4 *)

\* C4: close_app_no_output, whether CLI_ARGS is empty or holds any
\* configuration, returns Ok and asks for exit code 0, performs no filesystem
\* operation and leaves every file as it was; the process then terminates with
\* exit code 0.
C4_NoOutputAlwaysExits ==
    /\ [][ /\ (calls' = calls + 1 /\ resp'.cmd = "close_app_no_output")
              => /\ ReturnsOkAndExits
                 /\ fs' = fs
                 /\ fsLog' = fsLog
           /\ ExitingEndsWithZero ]_vars
    /\ ((pc = "exiting" /\ resp.cmd = "close_app_no_output") ~> pc = "terminated")

\* close_app_no_output ended a run whose output file is configured and exists.
C4_Witness ==
    /\ pc = "terminated"
    /\ exitCode = << 0 >>
    /\ resp.cmd = "close_app_no_output"
    /\ resp.result = << "Ok" >>
    /\ CLI_ARGS # << >>
    /\ CLI_ARGS[1].output_file = << << "o" >> >>
    /\ fs[P_o].content = << "z", "z", "z" >>

----------------------------------------------------------------------------
(* C5 *)

\* C5: in a run whose macro source is a local path that cannot be resolved or
\* read, the process gets no further than the macro loader: it terminates there
\* with exit status 1, CLI_ARGS is never set and no command is ever served.
C5_MacroFailureIsFatal ==
    (args # << >> /\ MacroSourceFails(args[1], fs))
    => /\ pc \in {"macros", "terminated"}
       /\ pc = "terminated" => exitCode = << 1 >>
       /\ CLI_ARGS = << >>
       /\ setCount = 0
       /\ calls = 0

\* The macro file exists and cannot be read: the process ended with status 1.
C5_Witness ==
    /\ pc = "terminated"
    /\ exitCode = << 1 >>
    /\ args # << >>
    /\ args[1].macros = << P_u >>
    /\ Len(stderr) = 1
    /\ Len(fsLog) = 2
    /\ CLI_ARGS = << >>

----------------------------------------------------------------------------
(* C6 *)

\* The macro content the claim expects for arguments a on filesystem f.
ExpectedMacroContent(a, f) ==
    IF a.macros = << >> THEN << >>
    ELSE IF IsUrl(a.macros[1]) THEN << a.macros[1] >>
    ELSE << f[Resolve(a.macros[1])].content >>

\* C6: the macro_content stored in CLI_ARGS is absent when the macro source is
\* absent, the source string itself when it starts with "http://" or
\* "https://", and otherwise the full content of the file; for a URL or an
\* absent source the loader performs no filesystem operation.
C6_MacroContent ==
    [][ /\ (setCount' = setCount + 1)
           => CLI_ARGS'[1].macro_content = ExpectedMacroContent(args[1], fs)
        /\ (pc = "macros" /\ (args[1].macros = << >> \/ IsUrl(args[1].macros[1])))
           => /\ fsLog' = fsLog
              /\ pc' = "set"
              /\ macro_content' = ExpectedMacroContent(args[1], fs) ]_vars

\* The macros of a local file were loaded and stored.
C6_Witness ==
    /\ CLI_ARGS # << >>
    /\ args[1].macros = << << "m" >> >>
    /\ CLI_ARGS[1].macro_content = << << "x", "\n", "y" >> >>
    /\ pc = "ready"

----------------------------------------------------------------------------
(* C7 *)

\* C7 as stated: in every run CLI_ARGS is written exactly once, before any
\* command is served, so whenever a command is served CLI_ARGS is set.
C7_Original ==
    /\ setCount <= 1
    /\ (pc \in {"ready", "exiting"} \/ calls > 0) => (setCount = 1 /\ CLI_ARGS # << >>)
    /\ pc = "terminated" => setCount = 1

\* C7 as amended: CLI_ARGS is written at most once in a run, and exactly once in
\* every run that gets past the flag parser and the macro loader; the write
\* comes before any command is served, so whenever a command is or was served
\* CLI_ARGS is set; a run that ends in the flag parser or in the macro loader
\* never writes it.
C7_WrittenOnceBeforeCommands ==
    /\ setCount <= 1
    /\ (CLI_ARGS # << >>) <=> (setCount = 1)
    /\ (pc \in {"build", "ready", "exiting"} \/ calls > 0)
       => (setCount = 1 /\ CLI_ARGS # << >>)
    /\ pc = "terminated"
       => ((setCount = 1) <=> (args # << >> /\ ~MacroSourceFails(args[1], fs)))

\* A command was served, after the one write.
C7_Witness ==
    /\ pc = "ready"
    /\ calls = 2
    /\ setCount = 1
    /\ resp.cmd = "get_cli_args"
    /\ resp.result = CLI_ARGS[1]

----------------------------------------------------------------------------
(* C8 *)

\* C8: get_cli_args returns a configuration with all three fields absent while
\* CLI_ARGS is empty and otherwise exactly the stored configuration; the stored
\* output_file and data are those of the parsed arguments; CLI_ARGS is written
\* by the one set of run() and by no command, so that all calls of get_cli_args
\* on the same side of that set return the same value.
C8_GetCliArgsIsStable ==
    /\ [][ /\ (calls' = calls + 1 /\ resp'.cmd = "get_cli_args")
              => resp'.result =
                   IF setCount = 0
                   THEN [output_file |-> << >>, macro_content |-> << >>, data |-> << >>]
                   ELSE CLI_ARGS[1]
           /\ (calls' = calls + 1) => (CLI_ARGS' = CLI_ARGS /\ setCount' = setCount)
           /\ (CLI_ARGS' # CLI_ARGS)
              => /\ setCount = 0
                 /\ setCount' = 1
                 /\ CLI_ARGS = << >>
                 /\ CLI_ARGS'[1].output_file = args[1].output_file
                 /\ CLI_ARGS'[1].data = args[1].data ]_vars
    /\ [](\A x, y \in returned : x[1] = y[1] => x[2] = y[2])

\* get_cli_args was called before the set and again after it, a failing
\* close_app having been served in between.
C8_Witness ==
    /\ calls >= 3
    /\ << 0, [output_file |-> << >>, macro_content |-> << >>, data |-> << >>] >>
         \in returned
    /\ resp.cmd = "get_cli_args"
    /\ resp.result.output_file = << P_r >>
    /\ resp.result.data = << << "d" >> >>
    /\ Len(stderr) = 3
    /\ stderr[1].tag = "Failed to write to"
    /\ << 1, resp.result >> \in returned

----------------------------------------------------------------------------
(* C9 *)

Rank(p) ==
    CASE Lifetime(p) = "Starting" -> 0
      [] Lifetime(p) = "Initializing" -> 1
      [] Lifetime(p) = "Ready" -> 2
      [] Lifetime(p) = "Exiting" -> 3
      [] Lifetime(p) = "terminated" -> 4

\* The lifetime never moves backwards; Ready is left only for Exiting, and
\* Exiting is entered only by a served close_app or close_app_no_output;
\* Exiting is followed only by terminated, with exit code 0.
LifetimeMovesForward ==
    /\ Rank(pc') >= Rank(pc)
    /\ pc = "terminated" => pc' = "terminated"
    /\ (pc = "ready" /\ pc' # "ready") => pc' = "exiting"
    /\ (pc' = "exiting" /\ pc # "exiting")
       => /\ pc = "ready"
          /\ calls' = calls + 1
          /\ resp'.cmd \in {"close_app", "close_app_no_output"}
    /\ ExitingEndsWithZero

\* The step ended the process without passing through Exiting.
EarlyTermination == pc' = "terminated" /\ pc \notin {"exiting", "terminated"}

\* C9 as stated: the lifetime moves forward only, and every termination that
\* does not pass through Exiting happens in Starting or Initializing with a
\* non-zero exit code, 1 for a macro-file failure.
C9_Original ==
    [][ /\ LifetimeMovesForward
        /\ EarlyTermination
           => /\ Lifetime(pc) \in {"Starting", "Initializing"}
              /\ exitCode' # << >>
              /\ exitCode' # << 0 >>
              /\ pc = "macros" => exitCode' = << 1 >> ]_vars

\* C9 as amended: as stated, except that the flag parser's help display ends
\* the process in Starting with exit code 0.
C9_LifetimeAndExitCodes ==
    [][ /\ LifetimeMovesForward
        /\ EarlyTermination
           => /\ Lifetime(pc) \in {"Starting", "Initializing"}
              /\ exitCode' # << >>
              /\ exitCode' = << 0 >>
                 => /\ pc = "parse"
                    /\ Len(stdout') = 1
                    /\ stdout'[1].tag = "help"
              /\ pc = "macros" => exitCode' = << 1 >> ]_vars

\* A run that went through every stage: a failed write, then a close_app that
\* wrote the file, then the end of the process.
C9_Witness ==
    /\ pc = "terminated"
    /\ exitCode = << 0 >>
    /\ setCount = 1
    /\ calls = 2
    /\ resp.cmd = "close_app"
    /\ Len(fsLog) = 2
    /\ fsLog[1].err = "io"
    /\ fsLog[2].err = ""

----------------------------------------------------------------------------
(* C10 *)

\* C10: with CLI_ARGS set, a close_app that has no output file path or no data
\* performs no filesystem operation and leaves every file as it was, returns Ok
\* and asks for exit code 0, and the process then terminates with exit code 0;
\* and a step that changes a file or performs a write is a close_app with a
\* configured path and present data, changing no file but the one at that path.
C10_WritesOnlyWithPathAndData ==
    /\ [][ /\ ( /\ CloseAppServed
                /\ CLI_ARGS # << >>
                /\ (CLI_ARGS[1].output_file = << >> \/ resp'.arg = << >>) )
              => /\ fs' = fs
                 /\ fsLog' = fsLog
                 /\ ReturnsOkAndExits
           /\ (fs' # fs \/ (fsLog' # fsLog /\ fsLog'[Len(fsLog')].op = "write"))
              => /\ CloseAppServed
                 /\ CLI_ARGS # << >>
                 /\ CLI_ARGS[1].output_file # << >>
                 /\ resp'.arg # << >>
                 /\ fsLog'[Len(fsLog')].path = CLI_ARGS[1].output_file[1]
                 /\ \A q \in DOMAIN fs \ {Resolve(CLI_ARGS[1].output_file[1])} :
                        fs'[q] = fs[q]
           /\ ExitingEndsWithZero ]_vars
    /\ ((pc = "exiting" /\ resp.cmd = "close_app") ~> pc = "terminated")

\* close_app without data ended a run whose output file is configured: the file
\* still holds what it held.
C10_Witness ==
    /\ pc = "terminated"
    /\ exitCode = << 0 >>
    /\ resp = [cmd |-> "close_app", arg |-> << >>, result |-> << "Ok" >>]
    /\ CLI_ARGS[1].output_file = << << "o" >> >>
    /\ fs[P_o].content = << "z", "z", "z" >>
    /\ fsLog = << >>

====
